---- MODULE Spec2Model ----
(***************************************************************************)
(* A model of simple-github: the credential generators of auth.py          *)
(* (AppAuth, AppInstallationAuth), the token-reactive session cache of    *)
(* client.py (SyncClient, AsyncClient) and the rate-limit functions of     *)
(* util/rate_limit.py.                                                     *)
(*                                                                         *)
(* The specifications share the variables:                                 *)
(*   SpecApp     - one AppAuth driven by get_token calls and the clock;    *)
(*   SpecInst    - one AppInstallationAuth, its private AsyncClient and    *)
(*                 its parent AppAuth, driven by concurrent tasks;         *)
(*   SpecClient  - a SyncClient and an AsyncClient driven in lockstep by   *)
(*                 the same operations and the same credential;            *)
(*   SpecRate    - is_rate_limited and get_wait_time on one response;      *)
(*   SpecOwner   - an AsyncClient over an AppInstallationAuth, with        *)
(*                 close();                                                *)
(*   SpecSyncApp - a SyncClient and an AsyncClient, each over an AppAuth;  *)
(*   SpecEnv     - client_from_env on one environment;                     *)
(*   SpecCancel  - one AppInstallationAuth whose callers may be cancelled  *)
(*                 while the network call is in flight;                    *)
(*   SpecConc    - concurrent tasks running operations on one AsyncClient, *)
(*                 with cancellation and transport failures.               *)
(***************************************************************************)
EXTENDS Integers, Sequences, FiniteSets, TLC

VARIABLES
    now,            \* int(time.time())
    ticks,          \* number of clock advances so far (bounds the run)
    app,            \* the AppAuth: its generator's position and locals
    appHist,        \* what the last AppAuth.get_token call did
    inst,           \* the AppInstallationAuth: its generator's position and locals
    pclient,        \* AppInstallationAuth._client, the private AsyncClient
    tasks,          \* the tasks that call AppInstallationAuth.get_token
    instCalls,      \* number of AppInstallationAuth.get_token calls so far
    netlog,         \* the requests the private client has sent, in order
    installations,  \* the list the server answered to the lookup, if it has
    minted,         \* number of installation tokens the server has minted
    auth,           \* the credential of the two lockstep clients
    sync,           \* the SyncClient
    async,          \* the AsyncClient
    syncOut,        \* what the SyncClient's last operation did
    asyncOut,       \* what the AsyncClient's last operation did
    ops,            \* number of operations the lockstep clients have run
    sapp,           \* the AppAuth held by the SyncClient of SpecSyncApp
    rate,           \* the response given to util/rate_limit.py and its answers
    env,            \* the environment given to client_from_env and its answer
    ctasks          \* the tasks that run operations on the AsyncClient of SpecConc

clockVars == <<now, ticks>>
appVars == <<app, appHist>>
instVars == <<inst, pclient, tasks, instCalls, netlog, installations, minted>>
clientVars == <<auth, sync, async, syncOut, asyncOut, ops>>
extVars == <<sapp, rate, env, ctasks>>
vars == <<now, ticks, app, appHist, inst, pclient, tasks, instCalls, netlog,
          installations, minted, auth, sync, async, syncOut, asyncOut, ops,
          sapp, rate, env, ctasks>>

----------------------------------------------------------------------------
(* Bounds of the model *)

MaxTicks == 6
MaxAppCalls == 4

(* Amounts by which the clock advances between two steps: around the 480 s *)
(* threshold of the JWT and around the 3540 s threshold of the installation *)
(* token                                                                    *)
AppClockSteps == {1, 59, 420}
InstClockSteps == {1, 3539}

----------------------------------------------------------------------------
(* Python's None and Optional values: None is <<>>, a value v is <<v>> *)

None == <<>>
Some(v) == <<v>>

----------------------------------------------------------------------------
(* auth.py: AppAuth *)

APP_ID == 42
PRIVKEY == "privkey"
JWT_TTL == 540
REFRESH_WINDOW == 60

(* jwt.encode(payload, key, algorithm="RS256"): RS256 signing is             *)
(* deterministic, so the token is a string fixed by the payload and the key *)
(* and two payloads that differ give two tokens.                            *)
JwtEncode(payload, key) ==
    "jwt." \o ToString(payload["iat"]) \o "." \o ToString(payload["exp"])
           \o "." \o ToString(payload["iss"]) \o "." \o key

(* The payload built when the generator body starts *)
NewPayload(issued_at, id) ==
    [iat |-> issued_at, exp |-> issued_at + JWT_TTL, iss |-> id]

(* Mutant of JwtExpiring: the token is never signed again *)
JwtExpiringNever(payload, current) == FALSE

(* Mutant of JwtExpiring: the boundary second counts as expiring *)
JwtExpiringInclusive(payload, current) ==
    payload["exp"] - current <= REFRESH_WINDOW

(* The refresh test of the generator's loop *)
JwtExpiring(payload, current) == payload["exp"] - current < REFRESH_WINDOW

(* Mutant of JwtRestamp: the issue time is left as it was *)
JwtRestampExpOnly(payload, current) ==
    [payload EXCEPT !["exp"] = current + JWT_TTL]

(* The body of the if: the payload is restamped and signed again *)
JwtRestamp(payload, current) ==
    [payload EXCEPT !["iat"] = current, !["exp"] = current + JWT_TTL]

(* One iteration of the while loop, up to the yield *)
JwtLoop(payload, token, key, current) ==
    IF JwtExpiring(payload, current)
    THEN LET p == JwtRestamp(payload, current)
         IN  [payload |-> p, token |-> JwtEncode(p, key)]
    ELSE [payload |-> payload, token |-> token]

(* AppAuth.__init__: the generator object is created, its body has not run, *)
(* so the locals payload and token do not exist yet.                        *)
AppInit ==
    [id |-> APP_ID, privkey |-> PRIVKEY, gen |-> "created",
     payload |-> None, token |-> None]

(* AppAuth.get_token: anext on the generator, run up to its next yield.    *)
(* The result is the auth's next state; its token field holds what the     *)
(* generator yields. The body has no await, so it is never found running.  *)
AppGetToken(a, current) ==
    LET start == a.gen = "created"
        p0 == IF start THEN NewPayload(current, a.id) ELSE a.payload[1]
        t0 == IF start THEN JwtEncode(p0, a.privkey) ELSE a.token[1]
        r  == JwtLoop(p0, t0, a.privkey, current)
    IN  [a EXCEPT !.gen = "yield", !.payload = Some(r.payload),
                  !.token = Some(r.token)]

----------------------------------------------------------------------------
(* auth.py: PublicAuth and TokenAuth *)

PublicAuthGetToken == ""

TokenAuthGetToken(a) == a.token

(* get_token of the credential of the lockstep clients *)
AuthGetToken(a) ==
    IF a.kind = "public" THEN PublicAuthGetToken ELSE TokenAuthGetToken(a)

----------------------------------------------------------------------------
(* client.py: the state of a Client and its session objects.               *)
(* objs holds every GqlClient the client has built, with the transport it  *)
(* was built on; _gql_client and _gql_session are 0 for None or an index   *)
(* into objs.                                                               *)

GITHUB_API_ENDPOINT == "https://api.github.com"
GITHUB_GRAPHQL_ENDPOINT == "https://api.github.com/graphql"
ACCEPT == "application/vnd.github+json"

(* Client.__init__ *)
ClientInit ==
    [prev_token |-> None, gql_client |-> 0, gql_session |-> 0, objs |-> <<>>]

(* f"Bearer {token}" *)
Bearer(token) == "Bearer " \o token

(* GqlClient.close_sync / close_async on the held client *)
CloseHeld(c) ==
    IF c.gql_client /= 0
    THEN [c EXCEPT !.objs[c.gql_client].open = FALSE]
    ELSE c

(* The transport and GqlClient construction followed by connect *)
Connect(c, url, headers, token) ==
    LET n == Len(c.objs) + 1
    IN  [c EXCEPT !.objs = Append(c.objs,
                      [url |-> url, headers |-> headers, open |-> TRUE,
                       token |-> token]),
                  !.gql_client = n, !.gql_session = n]

(* Mutant of SyncHeaders: the Authorization header is always set *)
SyncHeadersAlwaysAuth(token) ==
    [Accept |-> ACCEPT, Authorization |-> Bearer(token)]

(* SyncClient._get_gql_session: the headers dict *)
SyncHeaders(token) ==
    IF token /= ""
    THEN [Accept |-> ACCEPT, Authorization |-> Bearer(token)]
    ELSE [Accept |-> ACCEPT]

(* SyncClient._get_gql_session, given the token get_token returned *)
SyncGetGqlSession(c, token) ==
    IF Some(token) = c.prev_token
    THEN c
    ELSE Connect(CloseHeld([c EXCEPT !.prev_token = Some(token)]),
                 GITHUB_GRAPHQL_ENDPOINT, SyncHeaders(token), token)

(* AsyncClient._get_gql_session: the headers dict *)
AsyncHeaders(token) ==
    IF token /= ""
    THEN [Accept |-> ACCEPT, Authorization |-> Bearer(token)]
    ELSE [Accept |-> ACCEPT]

(* Mutant of AsyncGetGqlSession: the old client is not closed *)
AsyncGetGqlSessionNoClose(c, token) ==
    IF Some(token) = c.prev_token
    THEN c
    ELSE Connect([c EXCEPT !.prev_token = Some(token)],
                 GITHUB_GRAPHQL_ENDPOINT, AsyncHeaders(token), token)

(* AsyncClient._get_gql_session, given the token get_token returned *)
AsyncGetGqlSession(c, token) ==
    IF Some(token) = c.prev_token
    THEN c
    ELSE Connect(CloseHeld([c EXCEPT !.prev_token = Some(token)]),
                 GITHUB_GRAPHQL_ENDPOINT, AsyncHeaders(token), token)

(* A path is a sequence of pieces in which every "/" is a piece of its own. *)
(* str.lstrip("/") drops the leading "/" pieces.                            *)
RECURSIVE Lstrip(_)
Lstrip(q) == IF q /= <<>> /\ Head(q) = "/" THEN Lstrip(Tail(q)) ELSE q

(* f"{GITHUB_API_ENDPOINT}/{query.lstrip('/')}" *)
RestUrl(query) == <<GITHUB_API_ENDPOINT, "/">> \o Lstrip(query)

(* json.dumps(data). data is None or a dict, given as a sequence of         *)
(* <<key, value>> items; a value is a string [t |-> "str", v |-> s] or a    *)
(* list of strings [t |-> "list", v |-> <<s1, ...>>].                       *)
RECURSIVE JsonStrings(_)
JsonStrings(l) ==
    IF l = <<>> THEN ""
    ELSE "\"" \o l[1] \o "\"" \o (IF Len(l) > 1 THEN ", " ELSE "")
         \o JsonStrings(Tail(l))

JsonValue(x) ==
    IF x.t = "str" THEN "\"" \o x.v \o "\"" ELSE "[" \o JsonStrings(x.v) \o "]"

RECURSIVE JsonItems(_)
JsonItems(items) ==
    IF items = <<>> THEN ""
    ELSE "\"" \o items[1][1] \o "\": " \o JsonValue(items[1][2])
         \o (IF Len(items) > 1 THEN ", " ELSE "") \o JsonItems(Tail(items))

JsonDumps(data) ==
    IF data = None THEN "null" ELSE "{" \o JsonItems(data[1]) \o "}"

(* The record of one request, sent on the session _get_gql_session returned *)
(* for token. built counts the sessions the operation constructed.          *)
SentOn(before, c, token, kind, method, url, data, query, variables) ==
    [kind |-> kind, token |-> token, method |-> method, url |-> url,
     headers |-> c.objs[c.gql_session].headers,
     data |-> data, query |-> query, variables |-> variables,
     session |-> c.gql_session,
     built |-> Len(c.objs) - Len(before.objs)]

(* SyncClient.request *)
SyncRequest(c, token, method, query, data) ==
    LET c2 == SyncGetGqlSession(c, token)
    IN  [client |-> c2,
         out |-> SentOn(c, c2, token, "rest", method, RestUrl(query), data,
                        None, None)]

SyncGet(c, token, query) == SyncRequest(c, token, "GET", query, None)
SyncPost(c, token, query, data) ==
    SyncRequest(c, token, "POST", query, Some(JsonDumps(data)))
SyncPut(c, token, query, data) ==
    SyncRequest(c, token, "PUT", query, Some(JsonDumps(data)))
SyncPatch(c, token, query, data) ==
    SyncRequest(c, token, "PATCH", query, Some(JsonDumps(data)))
(* Mutant of SyncDelete: the body is left out *)
SyncDeleteNoBody(c, token, query, data) ==
    SyncRequest(c, token, "DELETE", query, None)

SyncDelete(c, token, query, data) ==
    SyncRequest(c, token, "DELETE", query, Some(JsonDumps(data)))

(* SyncClient.execute *)
SyncExecute(c, token, query, variables) ==
    LET c2 == SyncGetGqlSession(c, token)
    IN  [client |-> c2,
         out |-> SentOn(c, c2, token, "graphql", "POST",
                        c2.objs[c2.gql_session].url, None, Some(query),
                        variables)]

(* SyncClient.close, after auth.close() *)
SyncClose(c) == CloseHeld(c)

(* AsyncClient.request *)
AsyncRequest(c, token, method, query, data) ==
    LET c2 == AsyncGetGqlSession(c, token)
    IN  [client |-> c2,
         out |-> SentOn(c, c2, token, "rest", method, RestUrl(query), data,
                        None, None)]

AsyncGet(c, token, query) == AsyncRequest(c, token, "GET", query, None)
AsyncPost(c, token, query, data) ==
    AsyncRequest(c, token, "POST", query, Some(JsonDumps(data)))
AsyncPut(c, token, query, data) ==
    AsyncRequest(c, token, "PUT", query, Some(JsonDumps(data)))
AsyncPatch(c, token, query, data) ==
    AsyncRequest(c, token, "PATCH", query, Some(JsonDumps(data)))
AsyncDelete(c, token, query, data) ==
    AsyncRequest(c, token, "DELETE", query, Some(JsonDumps(data)))

(* Mutant of AsyncExecute: the session is resolved on first use only *)
AsyncExecuteHeldSession(c, token, query, variables) ==
    LET c2 == IF c.gql_session = 0 THEN AsyncGetGqlSession(c, token) ELSE c
    IN  [client |-> c2,
         out |-> SentOn(c, c2, token, "graphql", "POST",
                        c2.objs[c2.gql_session].url, None, Some(query),
                        variables)]

(* AsyncClient.execute *)
AsyncExecute(c, token, query, variables) ==
    LET c2 == AsyncGetGqlSession(c, token)
    IN  [client |-> c2,
         out |-> SentOn(c, c2, token, "graphql", "POST",
                        c2.objs[c2.gql_session].url, None, Some(query),
                        variables)]

(* AsyncClient.close, after auth.close() *)
AsyncClose(c) == CloseHeld(c)

(* Mutant of InstClose: the credential leaves its private client as it is *)
InstCloseNothing(pc) == pc

(* AppInstallationAuth.close: the private client is closed; its own        *)
(* credential is the parent AppAuth, whose close() does nothing.           *)
InstClose(pc) == AsyncClose(pc)

----------------------------------------------------------------------------
(* auth.py: AppInstallationAuth *)

INST_TTL == 3600
OWNER == "mozilla"

(* The repositories argument of the constructor: absent, a string or a list *)
RepoArgs ==
    { [kind |-> "none", s |-> "", v |-> <<>>],
      [kind |-> "str", s |-> "a", v |-> <<>>],
      [kind |-> "list", s |-> "", v |-> <<"a", "b">>] }

(* AppInstallationAuth.__init__: a string becomes a one-element list; the   *)
(* generator object is created and its body has not run.                    *)
InstInit(owner, arg) ==
    [owner |-> owner,
     repositories |-> IF arg.kind = "none" THEN None
                      ELSE IF arg.kind = "str" THEN Some(<<arg.s>>)
                      ELSE Some(arg.v),
     gen |-> "created", runner |-> "none",
     installation_id |-> None, token |-> None, exp |-> None]

(* What the server may answer to GET /app/installations *)
InstallationLists ==
    { <<>>,
      <<[id |-> 100, login |-> "mozilla"]>>,
      <<[id |-> 7, login |-> "other"], [id |-> 101, login |-> "mozilla"]>> }

(* Mutant of GetInstallationId: the first entry is taken, whoever owns it *)
GetInstallationIdFirstEntry(list, owner) ==
    IF list = <<>> THEN None ELSE Some(Head(list).id)

(* Mutant of GetInstallationId: without a match the last entry is taken *)
GetInstallationIdLastEntry(list, owner) ==
    IF list = <<>> THEN None
    ELSE IF \E i \in DOMAIN list : list[i].login = owner
    THEN Some(list[CHOOSE i \in DOMAIN list : list[i].login = owner].id)
    ELSE Some(list[Len(list)].id)

(* The scan of _get_installation_id: the first entry of the owner, or None  *)
(* where the method raises.                                                 *)
RECURSIVE GetInstallationId(_, _)
GetInstallationId(list, owner) ==
    IF list = <<>> THEN None
    ELSE IF Head(list).login = owner THEN Some(Head(list).id)
    ELSE GetInstallationId(Tail(list), owner)

(* query = f"/app/installations/{installation_id}/access_tokens" *)
AccessTokensQuery(installation_id) ==
    <<"/", "app", "/", "installations", "/", ToString(installation_id), "/",
      "access_tokens">>

InstallationsQuery == <<"/", "app", "/", "installations">>

(* Mutant of MintData: the repository list is left out of the body *)
MintDataUnscoped(repositories) == Some(<<>>)

(* data = {} ; if self.repositories: data["repositories"] = ... *)
MintData(repositories) ==
    IF repositories /= None /\ repositories[1] /= <<>>
    THEN Some(<< <<"repositories", [t |-> "list", v |-> repositories[1]]>> >>)
    ELSE Some(<<>>)

(* Mutant of InstExpiring: every call refreshes *)
InstExpiringAlways(exp, cur) == TRUE

(* Mutant of InstExpiring: the token is refreshed only once it has expired *)
InstExpiringAtExpiry(exp, cur) == exp - cur < 0

(* The refresh test of the generator's loop *)
InstExpiring(exp, cur) == exp - cur < REFRESH_WINDOW

(* exp = int(time.time()) + 3600 *)
InstExpiry(current) == current + INST_TTL

(* The token the server mints on its n-th access-token POST *)
ServerToken(n) == "ghs_" \o ToString(n)

(* The positions at which the generator is suspended inside a network call: *)
(* an anext on it then finds it running.                                    *)
InstRunning(g) == g.gen \in {"lookup", "mint", "refresh"}

----------------------------------------------------------------------------
(* Bounds and inputs of the specifications *)

MaxInstCalls == 4
MaxOps == 3

Tasks == {"t1", "t2"}

(* What the credential of the lockstep clients may hold *)
TokenValues == {"", "abc", "def"}

(* Paths, request bodies, queries and variables of the operations *)
Queries == { <<"/", "octocat">>, <<"octocat">>, <<"/", "/", "octocat">> }
Bodies == { None, Some(<< <<"foo", [t |-> "str", v |-> "bar"]>> >>) }
GqlQueries == { "query { viewer { login }}" }
GqlVariables == { None, Some(<< <<"n", [t |-> "str", v |-> "1"]>> >>) }

NoOut ==
    [kind |-> "none", token |-> "", method |-> "", url |-> <<>>,
     headers |-> [Accept |-> ""],
     data |-> None, query |-> None, variables |-> None, session |-> 0,
     built |-> 0]

IdleTask ==
    [state |-> "idle", kind |-> "none", value |-> "", during |-> FALSE,
     old |-> None]

----------------------------------------------------------------------------
(* Initial states *)

ClockInit == now = 0 /\ ticks = 0

AppVarsInit ==
    /\ app = AppInit
    /\ appHist = [calls |-> 0, at |-> 0, ret |-> None, regen |-> FALSE]

InstVarsInit(arg) ==
    /\ inst = InstInit(OWNER, arg)
    /\ pclient = ClientInit
    /\ tasks = [t \in Tasks |-> IdleTask]
    /\ instCalls = 0
    /\ netlog = <<>>
    /\ installations = None
    /\ minted = 0

ClientVarsInit(kind, token) ==
    /\ auth = [kind |-> kind, token |-> token]
    /\ sync = ClientInit
    /\ async = ClientInit
    /\ syncOut = NoOut
    /\ asyncOut = NoOut
    /\ ops = 0

(* The variables of the other specifications, at rest *)
NoRate == [resp |-> None, attempt |-> 1, limited |-> None, wait |-> None]

NoEnv == [environ |-> <<>>, owner |-> "", repositories |-> <<>>, client |-> None]

IdleCTask ==
    [pc |-> "idle", token |-> "", closing |-> 0, built |-> 0, sent |-> None,
     error |-> ""]

EnvVarsInit ==
    /\ env = NoEnv
    /\ ctasks = [t \in Tasks |-> IdleCTask]

ExtVarsInit ==
    /\ sapp = AppInit
    /\ rate = NoRate
    /\ EnvVarsInit

InitApp ==
    /\ ClockInit
    /\ ExtVarsInit
    /\ AppVarsInit
    /\ InstVarsInit([kind |-> "none", v |-> <<>>])
    /\ ClientVarsInit("public", "")

InitInst ==
    /\ ClockInit
    /\ ExtVarsInit
    /\ AppVarsInit
    /\ \E arg \in RepoArgs : InstVarsInit(arg)
    /\ ClientVarsInit("public", "")

InitClient ==
    /\ ClockInit
    /\ ExtVarsInit
    /\ AppVarsInit
    /\ InstVarsInit([kind |-> "none", v |-> <<>>])
    /\ \/ ClientVarsInit("public", "")
       \/ \E tok \in TokenValues : ClientVarsInit("token", tok)

----------------------------------------------------------------------------
(* The clock *)

Tick(d) ==
    /\ ticks < MaxTicks
    /\ now' = now + d
    /\ ticks' = ticks + 1

----------------------------------------------------------------------------
(* SpecApp: get_token calls on one AppAuth *)

AppCall ==
    /\ appHist.calls < MaxAppCalls
    /\ app' = AppGetToken(app, now)
    /\ appHist' = [calls |-> appHist.calls + 1, at |-> now, ret |-> app'.token,
                   regen |-> app'.token /= app.token]
    /\ UNCHANGED <<clockVars, instVars, clientVars, extVars>>

AppTick ==
    /\ \E d \in AppClockSteps : Tick(d)
    /\ UNCHANGED <<appVars, instVars, clientVars, extVars>>

NextApp == AppCall \/ AppTick

SpecApp == InitApp /\ [][NextApp]_vars

C2_PayloadWindow ==
    app.gen = "yield" =>
        LET p == app.payload[1]
        IN  /\ p["exp"] = p["iat"] + 540
            /\ p["iss"] = APP_ID
            /\ app.token = Some(JwtEncode(p, PRIVKEY))
            /\ p["iat"] <= now
            /\ appHist.regen => p["iat"] = appHist.at

(* The cached token is a regenerated one, not the first *)
C2_Witness ==
    /\ app.gen = "yield"
    /\ appHist.calls >= 2
    /\ appHist.regen
    /\ app.payload[1]["iat"] > 0

----------------------------------------------------------------------------
(* SpecInst: tasks calling get_token on one AppInstallationAuth.            *)
(* The generator does its network calls through the private client, which   *)
(* resolves the parent AppAuth's JWT and its session before it sends; the   *)
(* generator then stays suspended until the server's answer arrives.        *)

(* self._client.get(query) / self._client.post(query, data=data), up to the *)
(* point where the request is on the wire                                   *)
PrivateSend(method, query, data) ==
    LET a2 == AppGetToken(app, now)
        r  == IF method = "GET"
              THEN AsyncGet(pclient, a2.token[1], query)
              ELSE AsyncPost(pclient, a2.token[1], query, data)
    IN  /\ app' = a2
        /\ pclient' = r.client
        /\ netlog' = Append(netlog, r.out)

(* An exception leaves the generator: it is finished and its locals are gone *)
InstFinished(g) ==
    [g EXCEPT !.gen = "finished", !.runner = "none", !.installation_id = None,
              !.token = None, !.exp = None]

TaskReturns(t, token) ==
    [tasks EXCEPT ![t].state = "done", ![t].kind = "token", ![t].value = token]

TaskRaises(t, error) ==
    [tasks EXCEPT ![t].state = "done", ![t].kind = "error", ![t].value = error]

TaskCalls(t) ==
    [tasks EXCEPT ![t] = [state |-> "waiting", kind |-> "none", value |-> "",
                          during |-> InstRunning(inst), old |-> inst.token]]

(* AppInstallationAuth.get_token called by task t: anext on the generator *)
InstCall(t) ==
    /\ tasks[t].state /= "waiting"
    /\ instCalls < MaxInstCalls
    /\ instCalls' = instCalls + 1
    /\ UNCHANGED <<clockVars, appHist, installations, minted, clientVars,
                   extVars>>
    /\ CASE InstRunning(inst) ->
              \* the generator is suspended inside another task's anext
              /\ tasks' = [TaskCalls(t) EXCEPT ![t].state = "done",
                              ![t].kind = "error", ![t].value = "RuntimeError"]
              /\ UNCHANGED <<inst, app, pclient, netlog>>
         [] inst.gen = "finished" ->
              /\ tasks' = [TaskCalls(t) EXCEPT ![t].state = "done",
                              ![t].kind = "error",
                              ![t].value = "StopAsyncIteration"]
              /\ UNCHANGED <<inst, app, pclient, netlog>>
         [] inst.gen = "created" ->
              \* the body starts: _get_installation_id sends the lookup
              /\ PrivateSend("GET", InstallationsQuery, None)
              /\ inst' = [inst EXCEPT !.gen = "lookup", !.runner = t]
              /\ tasks' = TaskCalls(t)
         [] inst.gen = "yield" ->
              \* the loop goes round: cur = int(time.time())
              IF InstExpiring(inst.exp[1], now)
              THEN /\ PrivateSend("POST",
                          AccessTokensQuery(inst.installation_id[1]),
                          MintData(inst.repositories))
                   /\ inst' = [inst EXCEPT !.gen = "refresh", !.runner = t]
                   /\ tasks' = TaskCalls(t)
              ELSE /\ tasks' = [TaskCalls(t) EXCEPT ![t].state = "done",
                                   ![t].kind = "token",
                                   ![t].value = inst.token[1]]
                   /\ UNCHANGED <<inst, app, pclient, netlog>>

(* The answer to the lookup arrives, an error or a list: raise_for_status,  *)
(* the scan, and on a match the first _gentoken() sends its POST.           *)
LookupReply(ok, list) ==
    /\ inst.gen = "lookup"
    /\ UNCHANGED <<clockVars, appHist, minted, instCalls, clientVars,
                   extVars>>
    /\ installations' = IF ok THEN Some(list) ELSE None
    /\ LET id == GetInstallationId(list, inst.owner)
       IN  IF ok /\ id /= None
           THEN /\ PrivateSend("POST", AccessTokensQuery(id[1]),
                               MintData(inst.repositories))
                /\ inst' = [inst EXCEPT !.gen = "mint", !.installation_id = id]
                /\ UNCHANGED tasks
           ELSE /\ inst' = InstFinished(inst)
                /\ tasks' = TaskRaises(inst.runner,
                               IF ok THEN "NotInstalled"
                               ELSE "ClientResponseError")
                /\ UNCHANGED <<app, pclient, netlog>>

(* The answer to an access-token POST arrives: raise_for_status, then       *)
(* token and exp are set and the generator runs on to its yield.            *)
MintReply(ok) ==
    /\ inst.gen \in {"mint", "refresh"}
    /\ UNCHANGED <<clockVars, appHist, installations, instCalls, clientVars,
                   app, pclient, netlog, extVars>>
    /\ IF ok
       THEN /\ minted' = minted + 1
            /\ inst' = [inst EXCEPT !.gen = "yield", !.runner = "none",
                                    !.token = Some(ServerToken(minted + 1)),
                                    !.exp = Some(InstExpiry(now))]
            /\ tasks' = TaskReturns(inst.runner, ServerToken(minted + 1))
       ELSE /\ inst' = InstFinished(inst)
            /\ tasks' = TaskRaises(inst.runner, "ClientResponseError")
            /\ UNCHANGED minted

InstTick ==
    /\ \E d \in InstClockSteps : Tick(d)
    /\ UNCHANGED <<appVars, instVars, clientVars, extVars>>

NextInst ==
    \/ \E t \in Tasks : InstCall(t)
    \/ \E ok \in BOOLEAN, list \in InstallationLists : LookupReply(ok, list)
    \/ \E ok \in BOOLEAN : MintReply(ok)
    \/ InstTick

SpecInst == InitInst /\ [][NextInst]_vars

(* The access-token POSTs and the lookups among the requests sent so far *)
PostsIn(log) == {i \in DOMAIN log : log[i].method = "POST"}
LookupsIn(log) == {i \in DOMAIN log : log[i].method = "GET"}

(* Task t makes a get_token call in this step *)
CallBy(t) == instCalls' = instCalls + 1 /\ tasks'[t] /= tasks[t]

(* C3: with a token cached (the generator rests at its yield), a get_token  *)
(* call made with exp - now >= 60 returns the cached token, sends nothing   *)
(* and leaves the cache alone; a call made with exp - now < 60 sends        *)
(* exactly one access-token POST; and when a mint is answered, the caller   *)
(* gets the newly minted token, which is cached with expiry = the time of   *)
(* that mint + 3600, and nothing more is sent.                              *)
C3_InstallationTokenWindow ==
    [][ /\ \A t \in Tasks :
              (CallBy(t) /\ inst.gen = "yield") =>
                  IF inst.exp[1] - now >= 60
                  THEN /\ tasks'[t].state = "done"
                       /\ tasks'[t].kind = "token"
                       /\ tasks'[t].value = inst.token[1]
                       /\ netlog' = netlog
                       /\ inst' = inst
                  ELSE /\ Len(netlog') = Len(netlog) + 1
                       /\ SubSeq(netlog', 1, Len(netlog)) = netlog
                       /\ netlog'[Len(netlog')].method = "POST"
                       /\ tasks'[t].state = "waiting"
        /\ (inst.gen \in {"mint", "refresh"} /\ minted' = minted + 1) =>
              /\ inst'.gen = "yield"
              /\ inst'.exp = Some(now + 3600)
              /\ inst'.token = Some(ServerToken(minted'))
              /\ inst'.token /= inst.token
              /\ tasks'[inst.runner].kind = "token"
              /\ tasks'[inst.runner].value = ServerToken(minted')
              /\ netlog' = netlog ]_vars

(* The token minted at time 0 was refreshed by the call at 3541 s: the      *)
(* second token is cached until 3541 + 3600 and was returned to a task.     *)
C3_Witness ==
    /\ inst.gen = "yield"
    /\ minted = 2
    /\ inst.exp = Some(7141)
    /\ \E t \in Tasks : tasks[t].kind = "token" /\ tasks[t].value = ServerToken(2)

(* C4: whatever was called and refreshed so far, at most one installation   *)
(* lookup was sent and it is the first request of all; every other request  *)
(* is an access-token POST for the id of the owner's first entry in the     *)
(* list that lookup was answered with; once a call has returned a token     *)
(* the lookup was sent exactly once.                                        *)
C4_LookupOnce ==
    /\ Cardinality(LookupsIn(netlog)) <= 1
    /\ netlog /= <<>> =>
          /\ netlog[1].method = "GET"
          /\ netlog[1].url =
                <<GITHUB_API_ENDPOINT, "/", "app", "/", "installations">>
    /\ \A i \in DOMAIN netlog : i > 1 =>
          /\ netlog[i].method = "POST"
          /\ installations /= None
          /\ \E k \in DOMAIN installations[1] :
                /\ installations[1][k].login = OWNER
                /\ \A j \in 1..(k - 1) : installations[1][j].login /= OWNER
                /\ netlog[i].url =
                      <<GITHUB_API_ENDPOINT, "/", "app", "/", "installations",
                        "/", ToString(installations[1][k].id), "/",
                        "access_tokens">>
    /\ (\E t \in Tasks : tasks[t].kind = "token") =>
          Cardinality(LookupsIn(netlog)) = 1

(* Two refreshes after the first mint: three POSTs, one lookup, and the     *)
(* owner's entry was not the first of the list.                             *)
C4_Witness ==
    /\ minted = 3
    /\ Cardinality(PostsIn(netlog)) = 3
    /\ Cardinality(LookupsIn(netlog)) = 1
    /\ installations /= None
    /\ Len(installations[1]) = 2

(* C8: a get_token call made while the generator is suspended inside the    *)
(* lookup or an access-token POST completes by returning the token that     *)
(* was cached when it was made or a token minted since; it does not fail.   *)
C8_ConcurrentCallsReturnToken ==
    \A t \in Tasks :
        (tasks[t].state = "done" /\ tasks[t].during) =>
            /\ tasks[t].kind = "token"
            /\ \/ Some(tasks[t].value) = tasks[t].old
               \/ \E n \in 1..minted : tasks[t].value = ServerToken(n)

(* C9: once a refresh has failed, the generator still holds a token and an  *)
(* expiry and can be asked again: it rests at its yield or is inside a new  *)
(* regeneration, and no later call ends in StopAsyncIteration.              *)
FailedRefresh(t) ==
    /\ tasks[t].state = "done"
    /\ tasks[t].kind = "error"
    /\ tasks[t].value = "ClientResponseError"
    /\ tasks[t].old /= None

C9_FailedRefreshRetried ==
    (\E t \in Tasks : FailedRefresh(t)) =>
        /\ inst.gen \in {"yield", "refresh"}
        /\ inst.token /= None
        /\ inst.exp /= None
        /\ \A u \in Tasks : tasks[u].value /= "StopAsyncIteration"

----------------------------------------------------------------------------
(* SpecClient: a SyncClient and an AsyncClient over the same credential,    *)
(* driven by the same operations one after the other.                       *)

(* Both clients have run the same operation; s and a are what it gave *)
Ran(s, a) ==
    /\ ops < MaxOps
    /\ ops' = ops + 1
    /\ sync' = s.client
    /\ syncOut' = s.out
    /\ async' = a.client
    /\ asyncOut' = a.out
    /\ UNCHANGED <<auth, clockVars, appVars, instVars, extVars>>

OpGet ==
    \E q \in Queries :
        Ran(SyncGet(sync, AuthGetToken(auth), q),
            AsyncGet(async, AuthGetToken(auth), q))

OpPost ==
    \E q \in Queries, d \in Bodies :
        Ran(SyncPost(sync, AuthGetToken(auth), q, d),
            AsyncPost(async, AuthGetToken(auth), q, d))

OpPut ==
    \E q \in Queries, d \in Bodies :
        Ran(SyncPut(sync, AuthGetToken(auth), q, d),
            AsyncPut(async, AuthGetToken(auth), q, d))

OpPatch ==
    \E q \in Queries, d \in Bodies :
        Ran(SyncPatch(sync, AuthGetToken(auth), q, d),
            AsyncPatch(async, AuthGetToken(auth), q, d))

OpDelete ==
    \E q \in Queries, d \in Bodies :
        Ran(SyncDelete(sync, AuthGetToken(auth), q, d),
            AsyncDelete(async, AuthGetToken(auth), q, d))

OpExecute ==
    \E q \in GqlQueries, v \in GqlVariables :
        Ran(SyncExecute(sync, AuthGetToken(auth), q, v),
            AsyncExecute(async, AuthGetToken(auth), q, v))

(* close() on both clients; auth.close() of TokenAuth and PublicAuth does   *)
(* nothing                                                                  *)
OpClose ==
    /\ sync' = SyncClose(sync)
    /\ async' = AsyncClose(async)
    /\ <<sync', async'>> /= <<sync, async>>
    /\ UNCHANGED <<auth, syncOut, asyncOut, ops, clockVars, appVars, instVars,
                   extVars>>

(* The caller gives the TokenAuth another token (auth._token = ...) *)
RotateToken ==
    /\ auth.kind = "token"
    /\ \E tok \in TokenValues :
          tok /= auth.token /\ auth' = [auth EXCEPT !.token = tok]
    /\ UNCHANGED <<sync, async, syncOut, asyncOut, ops, clockVars, appVars,
                   instVars, extVars>>

NextClient ==
    \/ OpGet
    \/ OpPost
    \/ OpPut
    \/ OpPatch
    \/ OpDelete
    \/ OpExecute
    \/ OpClose
    \/ RotateToken

SpecClient == InitClient /\ [][NextClient]_vars

(* An operation runs in this step *)
OpStep == ops' = ops + 1

(* What C5 asks of one client in an operation step: before/after are the    *)
(* client before and after, prev and out the outcome of the previous        *)
(* operation and of this one.                                               *)
ReuseOrRebuild(before, after, prev, out) ==
    IF prev.kind /= "none" /\ out.token = prev.token
    THEN /\ out.session = prev.session
         /\ out.built = 0
         /\ after.objs = before.objs
         /\ after.gql_client = before.gql_client
    ELSE /\ before.gql_session /= 0 =>
                ~after.objs[before.gql_session].open
         /\ Len(after.objs) = Len(before.objs) + 1
         /\ SubSeq(after.objs, 1, Len(before.objs)) =
                [i \in DOMAIN before.objs |->
                    [before.objs[i] EXCEPT !.open =
                        IF i = before.gql_client THEN FALSE ELSE @]]
         /\ out.built = 1
         /\ out.session = Len(after.objs)
         /\ after.gql_session = out.session
         /\ after.objs[out.session].token = out.token
         /\ after.objs[out.session].open

(* C5: over any sequence of operations on a SyncClient and on an            *)
(* AsyncClient, an operation whose retrieved token equals the token of the  *)
(* previous operation gets the session that operation got and nothing is    *)
(* constructed or closed; an operation whose token differs (or the first    *)
(* one) closes the session held before and constructs exactly one new,      *)
(* open session bound to the new token, on which it proceeds.               *)
C5_ReuseOrRebuildSession ==
    [][ OpStep =>
            /\ syncOut'.token = AuthGetToken(auth)
            /\ asyncOut'.token = AuthGetToken(auth)
            /\ ReuseOrRebuild(sync, sync', syncOut, syncOut')
            /\ ReuseOrRebuild(async, async', asyncOut, asyncOut') ]_vars

(* Both cases have happened: the last operation reused the second session,  *)
(* which was built when the token changed and the first session was closed. *)
C5_Witness ==
    /\ ops = 3
    /\ asyncOut.built = 0
    /\ asyncOut.session = 2
    /\ Len(async.objs) = 2
    /\ ~async.objs[1].open
    /\ async.objs[2].open
    /\ async.objs[1].token /= async.objs[2].token
    /\ syncOut.built = 0
    /\ syncOut.session = 2
    /\ ~sync.objs[1].open

(* The headers C6 expects of a session built for token *)
ExpectedHeaders(token) ==
    IF token = ""
    THEN [Accept |-> "application/vnd.github+json"]
    ELSE [Accept |-> "application/vnd.github+json",
          Authorization |-> "Bearer " \o token]

(* C6: every session either client has built carries Accept:                *)
(* application/vnd.github+json plus Authorization: Bearer <token> exactly   *)
(* when the token it was built for is non-empty; and no request of a client *)
(* whose credential is PublicAuth carries an Authorization header.          *)
C6_SessionHeaders ==
    /\ \A c \in {sync, async} : \A i \in DOMAIN c.objs :
          /\ c.objs[i].headers = ExpectedHeaders(c.objs[i].token)
          /\ ("Authorization" \in DOMAIN c.objs[i].headers)
                <=> (c.objs[i].token /= "")
    /\ auth.kind = "public" =>
          \A o \in {syncOut, asyncOut} :
              "Authorization" \notin DOMAIN o.headers

(* Sessions with and without the Authorization header have been built *)
C6_Witness ==
    /\ Len(sync.objs) >= 2
    /\ Len(async.objs) >= 2
    /\ \E i, j \in DOMAIN async.objs :
          /\ async.objs[i].token = ""
          /\ async.objs[j].token /= ""
    /\ \E i, j \in DOMAIN sync.objs :
          /\ sync.objs[i].token = ""
          /\ sync.objs[j].token /= ""

(* C7: every operation (get, post, put, patch, delete, execute), the first  *)
(* and every later one, is sent on the session the client holds after the   *)
(* call, and that session was built for the token the credential gives at   *)
(* the time of the operation and carries the headers for it: after the      *)
(* token has changed the very next operation goes out with the new token.   *)
C7_ResolveBeforeEveryCall ==
    [][ OpStep =>
            \A p \in {<<sync', syncOut'>>, <<async', asyncOut'>>} :
                LET c == p[1]
                    o == p[2]
                IN  /\ o.session = c.gql_session
                    /\ c.prev_token = Some(AuthGetToken(auth))
                    /\ c.objs[o.session].token = AuthGetToken(auth)
                    /\ o.headers = ExpectedHeaders(AuthGetToken(auth)) ]_vars

(* The token was changed after the first operation and the GraphQL          *)
(* execution that followed went out on a second session with the new token  *)
C7_Witness ==
    /\ ops >= 2
    /\ asyncOut.kind = "graphql"
    /\ asyncOut.session = 2
    /\ asyncOut.built = 1
    /\ async.objs[1].token = "abc"
    /\ asyncOut.headers = ExpectedHeaders("def")
    /\ syncOut.headers = ExpectedHeaders("def")

----------------------------------------------------------------------------
(* util/rate_limit.py. A text is a sequence of one-character strings, so   *)
(* that str.lower, the `in` substring test and int() are computed.         *)

UpperLetters == <<"A", "B", "C", "D", "E", "F", "G", "H", "I", "J", "K", "L", "M", "N", "O", "P", "Q", "R", "S", "T", "U", "V", "W", "X", "Y", "Z">>
LowerLetters == <<"a", "b", "c", "d", "e", "f", "g", "h", "i", "j", "k", "l", "m", "n", "o", "p", "q", "r", "s", "t", "u", "v", "w", "x", "y", "z">>
DigitChars == <<"0", "1", "2", "3", "4", "5", "6", "7", "8", "9">>

(* str.lower *)
LowerChar(c) ==
    IF \E i \in DOMAIN UpperLetters : UpperLetters[i] = c
    THEN LowerLetters[CHOOSE i \in DOMAIN UpperLetters : UpperLetters[i] = c]
    ELSE c

Lower(s) == [i \in 1..Len(s) |-> LowerChar(s[i])]

(* sub in s *)
Contains(sub, s) ==
    \E i \in 0..(Len(s) - Len(sub)) : SubSeq(s, i + 1, i + Len(sub)) = sub

(* int(text) of a non-empty text of decimal digits *)
DigitValue(c) == (CHOOSE i \in DOMAIN DigitChars : DigitChars[i] = c) - 1

RECURSIVE ParseInt(_)
ParseInt(s) ==
    IF s = <<>> THEN 0
    ELSE ParseInt(SubSeq(s, 1, Len(s) - 1)) * 10 + DigitValue(s[Len(s)])

(* The truth value of an optional text: None and "" are false *)
Truthy(opt) == opt /= None /\ opt[1] /= <<>>

(* dict.get(key, default) on an optional entry *)
GetOr(opt, default) == IF opt = None THEN default ELSE opt[1]

(* a or b, where a is a text: the result is a when a is not empty *)
PyOr(a, b) == IF a /= <<>> THEN TRUE ELSE b

GRAPHQL == <<"g", "r", "a", "p", "h", "q", "l">>
CORE == <<"c", "o", "r", "e">>
ZERO == <<"0">>
RATE_LIMITED == "RATE_LIMITED"
RATE_LIMIT == <<"r", "a", "t", "e", " ", "l", "i", "m", "i", "t">>
RATE_LIMIT_EXCEEDED == <<"r", "a", "t", "e", " ", "l", "i", "m", "i", "t", " ", "e", "x", "c", "e", "e", "d", "e", "d">>
TOO_MANY_REQUESTS == <<"t", "o", "o", " ", "m", "a", "n", "y", " ", "r", "e", "q", "u", "e", "s", "t", "s">>

(* resp.headers *)
Headers(resource, remaining, reset, retry_after) ==
    ("x-ratelimit-resource" :> resource) @@ ("x-ratelimit-remaining" :> remaining)
    @@ ("x-ratelimit-reset" :> reset) @@ ("retry-after" :> retry_after)

(* resp.json(): json is FALSE when the body does not decode, and the call  *)
(* raises ValueError; otherwise data is the decoded object.                 *)
NoJson == [json |-> FALSE, message |-> None, errors |-> None]
JsonBody(message, errors) == [json |-> TRUE, message |-> message, errors |-> errors]

(* One entry of the errors list of a GraphQL body; code is extensions.code *)
GqlError(type, code, message) == [type |-> type, code |-> code, message |-> message]

(* Mutant of ErrorMatches: the message is compared as it is written *)
ErrorMatchesCaseSensitive(error) ==
    \/ error.type = Some(RATE_LIMITED)
    \/ error.code = Some(RATE_LIMITED)
    \/ Contains(RATE_LIMIT, GetOr(error.message, <<>>))

(* The test made on one entry of the errors list *)
ErrorMatches(error) ==
    \/ error.type = Some(RATE_LIMITED)
    \/ error.code = Some(RATE_LIMITED)
    \/ Contains(RATE_LIMIT, Lower(GetOr(error.message, <<>>)))

(* The branch taken when x-ratelimit-resource is "graphql" *)
GraphqlRateLimited(resp) ==
    IF resp.status_code \in {200, 403}
    THEN IF ~resp.body.json THEN "ValueError"
         ELSE LET errors == GetOr(resp.body.errors, <<>>)
              IN  IF \E i \in 1..Len(errors) : ErrorMatches(errors[i])
                  THEN "True" ELSE "False"
    ELSE "False"

(* The condition on the lowered message of a REST body:                     *)
(* "rate limit exceeded" or "too many requests" in message                  *)
RestMessageTest(message) ==
    PyOr(RATE_LIMIT_EXCEEDED, Contains(TOO_MANY_REQUESTS, message))

(* The branch taken for every other resource *)
RestRateLimited(resp) ==
    IF resp.status_code \in {403, 429}
    THEN IF \/ resp.headers["x-ratelimit-remaining"] = Some(ZERO)
            \/ Truthy(resp.headers["retry-after"])
         THEN "True"
         ELSE IF resp.body.json
                 /\ RestMessageTest(Lower(GetOr(resp.body.message, <<>>)))
              THEN "True"
              ELSE "False"
    ELSE "False"

(* is_rate_limited(resp): "True", "False", or the exception that escapes *)
IsRateLimited(resp) ==
    IF resp.headers["x-ratelimit-resource"] = Some(GRAPHQL)
    THEN GraphqlRateLimited(resp)
    ELSE RestRateLimited(resp)

(* Mutant of FloorAttempt: the attempt number is used as given *)
FloorAttemptNone(attempt) == attempt

(* attempt = max(attempt, 1) *)
FloorAttempt(attempt) == IF attempt > 1 THEN attempt ELSE 1

(* Mutant of GetWaitTime: retry-after is looked at first *)
GetWaitTimeRetryFirst(resp, attempt, current) ==
    LET remaining == resp.headers["x-ratelimit-remaining"]
        reset == resp.headers["x-ratelimit-reset"]
        retry_after == resp.headers["retry-after"]
    IN  IF Truthy(retry_after) THEN ParseInt(retry_after[1])
        ELSE IF remaining = Some(ZERO) /\ Truthy(reset)
        THEN LET d == ParseInt(reset[1]) - current
             IN  IF d > 0 THEN d ELSE 0
        ELSE 60 + (20 * (FloorAttempt(attempt) - 1))

(* get_wait_time(resp, attempt), called when int(time()) is current *)
GetWaitTime(resp, attempt, current) ==
    LET remaining == resp.headers["x-ratelimit-remaining"]
        reset == resp.headers["x-ratelimit-reset"]
        retry_after == resp.headers["retry-after"]
    IN  IF remaining = Some(ZERO) /\ Truthy(reset)
        THEN LET d == ParseInt(reset[1]) - current
             IN  IF d > 0 THEN d ELSE 0
        ELSE IF Truthy(retry_after) THEN ParseInt(retry_after[1])
        ELSE 60 + (20 * (FloorAttempt(attempt) - 1))

----------------------------------------------------------------------------
(* SpecRate: is_rate_limited and get_wait_time applied to one response *)

MaxAttempt == 4

RateNows == {100, 130}
RateAttempts == (0 - MaxAttempt)..MaxAttempt

RateBodies ==
    { NoJson,
      JsonBody(None, None),
      JsonBody(Some(<<"f", "o", "r", "b", "i", "d", "d", "e", "n">>), None),
      JsonBody(Some(<<"A", "P", "I", " ", "r", "a", "t", "e", " ", "l", "i", "m", "i", "t", " ", "e", "x", "c", "e", "e", "d", "e", "d", " ", "f", "o", "r", " ", "u", "s", "e", "r">>), None),
      JsonBody(Some(<<"T", "o", "o", " ", "M", "a", "n", "y", " ", "R", "e", "q", "u", "e", "s", "t", "s">>), None),
      JsonBody(None, Some(<<>>)),
      JsonBody(None, Some(<<GqlError(Some(RATE_LIMITED), None, None)>>)),
      JsonBody(None, Some(<<GqlError(None, Some(RATE_LIMITED), None)>>)),
      JsonBody(None, Some(<<GqlError(None, None, Some(<<"A", "P", "I", " ", "R", "a", "t", "e", " ", "L", "i", "m", "i", "t", " ", "h", "i", "t">>))>>)),
      JsonBody(None, Some(<<GqlError(Some("NOT_FOUND"), None, Some(<<"f", "o", "r", "b", "i", "d", "d", "e", "n">>))>>)),
      JsonBody(None, Some(<<GqlError(Some("NOT_FOUND"), None, Some(<<"f", "o", "r", "b", "i", "d", "d", "e", "n">>)),
                            GqlError(Some(RATE_LIMITED), None, None)>>)) }

RateResponses ==
    { [status_code |-> s, headers |-> Headers(res, rem, rst, ra), body |-> b] :
        s \in {200, 403, 429, 500},
        res \in {None, Some(GRAPHQL), Some(CORE)},
        rem \in {None, Some(ZERO), Some(<<"5">>)},
        rst \in {None, Some(<<"1", "3", "0">>), Some(<<"7", "0">>)},
        ra \in {None, Some(<<"1", "5">>)},
        b \in RateBodies }

InitRate ==
    /\ now \in RateNows
    /\ ticks = 0
    /\ AppVarsInit
    /\ InstVarsInit([kind |-> "none", v |-> <<>>])
    /\ ClientVarsInit("public", "")
    /\ sapp = AppInit
    /\ EnvVarsInit
    /\ \E r \in RateResponses, a \in RateAttempts :
          rate = [resp |-> Some(r), attempt |-> a, limited |-> None,
                  wait |-> None]

RateClassify ==
    /\ rate.limited = None
    /\ rate' = [rate EXCEPT !.limited = Some(IsRateLimited(rate.resp[1]))]
    /\ UNCHANGED <<clockVars, appVars, instVars, clientVars, sapp, env, ctasks>>

RateWait ==
    /\ rate.wait = None
    /\ rate' = [rate EXCEPT
                  !.wait = Some(GetWaitTime(rate.resp[1], rate.attempt, now))]
    /\ UNCHANGED <<clockVars, appVars, instVars, clientVars, sapp, env, ctasks>>

NextRate == RateClassify \/ RateWait

SpecRate == InitRate /\ [][NextRate]_vars

RateResp == rate.resp[1]
RateGraphql == RateResp.headers["x-ratelimit-resource"] = Some(GRAPHQL)

(* C13: for a REST-shaped response that has been classified, the answer is  *)
(* True exactly when the status is 403 or 429 and x-ratelimit-remaining is *)
(* "0", or retry-after is present, or the decoded body's message contains  *)
(* "rate limit exceeded" or "too many requests"; it is False otherwise, so *)
(* for a 403 with no such header and the message "forbidden", and for      *)
(* every other status.                                                      *)
C13_RestRateLimited ==
    (rate.limited /= None /\ ~RateGraphql) =>
        LET message == Lower(GetOr(RateResp.body.message, <<>>))
            expected ==
                /\ RateResp.status_code \in {403, 429}
                /\ \/ RateResp.headers["x-ratelimit-remaining"] = Some(ZERO)
                   \/ RateResp.headers["retry-after"] /= None
                   \/ /\ RateResp.body.json
                      /\ \/ Contains(RATE_LIMIT_EXCEEDED, message)
                         \/ Contains(TOO_MANY_REQUESTS, message)
        IN  rate.limited = Some(IF expected THEN "True" ELSE "False")

(* C14: for a GraphQL-shaped response that has been classified, the answer *)
(* is True exactly when the status is 200 or 403 and some entry of the     *)
(* decoded body's errors list has type RATE_LIMITED, or extensions.code    *)
(* RATE_LIMITED, or a message that contains "rate limit" in any case; the  *)
(* rate-limit headers play no part, and a body that decodes gives True or  *)
(* False.                                                                   *)
C14_GraphqlRateLimited ==
    (rate.limited /= None /\ RateGraphql) =>
        LET errors == GetOr(RateResp.body.errors, <<>>)
            hit(e) == \/ e.type = Some("RATE_LIMITED")
                      \/ e.code = Some("RATE_LIMITED")
                      \/ \E m \in {Lower(GetOr(e.message, <<>>))} :
                            \E i \in 1..Len(m), j \in 1..Len(m) :
                               SubSeq(m, i, j) = <<"r", "a", "t", "e", " ", "l", "i", "m", "i", "t">>
            expected == /\ RateResp.status_code \in {200, 403}
                        /\ RateResp.body.json
                        /\ \E i \in 1..Len(errors) : hit(errors[i])
        IN  /\ rate.limited = Some("True") <=> expected
            /\ RateResp.body.json => rate.limited[1] \in {"True", "False"}

C14_Witness ==
    /\ rate.limited = Some("True")
    /\ RateGraphql
    /\ RateResp.status_code = 200
    /\ RateResp.headers["x-ratelimit-remaining"] = None
    /\ RateResp.headers["retry-after"] = None
    /\ RateResp.body.errors = Some(<<GqlError(None, None, Some(<<"A", "P", "I", " ", "R", "a", "t", "e", " ", "L", "i", "m", "i", "t", " ", "h", "i", "t">>))>>)

(* C15: a response whose body does not decode is still classified: the     *)
(* answer is True or False, for a GraphQL-shaped and for a REST-shaped     *)
(* response alike.                                                          *)
C15_UndecodableBodyClassified ==
    (rate.limited /= None /\ ~RateResp.body.json) =>
        rate.limited[1] \in {"True", "False"}

(* C16: once the wait time has been computed: with x-ratelimit-remaining   *)
(* "0" and x-ratelimit-reset present it is max(0, reset - now), whether or *)
(* not retry-after is present, and it is not negative; otherwise, with     *)
(* retry-after present, it is the integer value of retry-after; the        *)
(* fallback on the attempt number is used only when neither holds.         *)
C16_WaitTimePrecedence ==
    rate.wait /= None =>
        LET h == RateResp.headers
            fallback == 60 + 20 * ((IF rate.attempt > 1 THEN rate.attempt ELSE 1) - 1)
        IN  IF h["x-ratelimit-remaining"] = Some(ZERO) /\ h["x-ratelimit-reset"] /= None
            THEN /\ rate.wait[1] >= 0
                 /\ rate.wait[1] >= ParseInt(h["x-ratelimit-reset"][1]) - now
                 /\ rate.wait[1] \in {0, ParseInt(h["x-ratelimit-reset"][1]) - now}
            ELSE IF h["retry-after"] /= None
            THEN rate.wait[1] = ParseInt(h["retry-after"][1])
            ELSE rate.wait[1] = fallback

C16_Witness ==
    /\ rate.wait = Some(0)
    /\ now = 100
    /\ RateResp.headers["x-ratelimit-remaining"] = Some(ZERO)
    /\ RateResp.headers["x-ratelimit-reset"] = Some(<<"7", "0">>)
    /\ RateResp.headers["retry-after"] = Some(<<"1", "5">>)

(* Neither the reset-based nor the retry-after-based result applies *)
RateFallbackCase ==
    LET h == RateResp.headers
    IN  /\ ~(h["x-ratelimit-remaining"] = Some(ZERO) /\ h["x-ratelimit-reset"] /= None)
        /\ h["retry-after"] = None

(* C17: when the fallback applies, the wait time is                         *)
(* 60 + 20 * (max(attempt, 1) - 1): 60 for every attempt <= 1, 100 for     *)
(* attempt 3, never below 60, and not smaller than for the attempt before. *)
C17_WaitTimeFallback ==
    (rate.wait /= None /\ RateFallbackCase) =>
        /\ rate.attempt <= 1 => rate.wait[1] = 60
        /\ rate.attempt > 1 => rate.wait[1] = 60 + 20 * (rate.attempt - 1)
        /\ rate.attempt = 3 => rate.wait[1] = 100
        /\ rate.wait[1] >= 60
        /\ rate.wait[1] >= GetWaitTime(RateResp, rate.attempt - 1, now)

C17_Witness ==
    /\ rate.wait = Some(60)
    /\ RateFallbackCase
    /\ rate.attempt = 0 - 2

----------------------------------------------------------------------------
(* A client operation, given what the credential's get_token did: res is   *)
(* [kind |-> "token", value |-> the token] or [kind |-> "error",           *)
(* value |-> the exception]. get_token is the first statement of           *)
(* _get_gql_session, so its exception leaves before any assignment and     *)
(* before anything is sent.                                                 *)

Raised(error) == [NoOut EXCEPT !.kind = error]

Returned(token) == [kind |-> "token", value |-> token]
Failed(error) == [kind |-> "error", value |-> error]

(* Mutant of SyncGetWith: a failed get_token drops the held session *)
SyncGetWithReset(c, res, query) ==
    IF res.kind = "error"
    THEN [client |-> [CloseHeld(c) EXCEPT !.prev_token = None],
          out |-> Raised(res.value)]
    ELSE SyncGet(c, res.value, query)

(* SyncClient.get *)
SyncGetWith(c, res, query) ==
    IF res.kind = "error"
    THEN [client |-> c, out |-> Raised(res.value)]
    ELSE SyncGet(c, res.value, query)

(* AsyncClient.get *)
AsyncGetWith(c, res, query) ==
    IF res.kind = "error"
    THEN [client |-> c, out |-> Raised(res.value)]
    ELSE AsyncGet(c, res.value, query)

----------------------------------------------------------------------------
(* SpecOwner: an AsyncClient whose credential is an AppInstallationAuth,   *)
(* one operation at a time, and a SyncClient over a TokenAuth that is      *)
(* given the same operations.                                               *)

OwnerRepoArgs == RepoArgs \cup { [kind |-> "list", s |-> "", v |-> <<>>] }

OwnerLists == InstallationLists \cup { <<[id |-> 7, login |-> "other"]>> }

InitOwner ==
    /\ ClockInit
    /\ ExtVarsInit
    /\ AppVarsInit
    /\ \E arg \in OwnerRepoArgs : InstVarsInit(arg)
    /\ ClientVarsInit("token", "abc")

(* An operation begins: _get_gql_session awaits auth.get_token() *)
OwnerStart ==
    /\ tasks["t1"].state = "idle"
    /\ ops < MaxOps
    /\ InstCall("t1")

(* get_token has returned or raised: the rest of the operation *)
OwnerFinish ==
    /\ tasks["t1"].state = "done"
    /\ \E q \in Queries :
          LET res == [kind |-> tasks["t1"].kind, value |-> tasks["t1"].value]
              ra == AsyncGetWith(async, res, q)
              rs == SyncGetWith(sync, Returned(AuthGetToken(auth)), q)
          IN  /\ async' = ra.client
              /\ asyncOut' = ra.out
              /\ sync' = rs.client
              /\ syncOut' = rs.out
    /\ tasks' = [tasks EXCEPT !["t1"] = IdleTask]
    /\ ops' = ops + 1
    /\ UNCHANGED <<auth, clockVars, appVars, inst, pclient, instCalls, netlog,
                   installations, minted, extVars>>

(* close() on both clients: auth.close(), then the held GqlClient *)
OwnerClose ==
    /\ tasks["t1"].state = "idle"
    /\ ops < MaxOps
    /\ pclient' = InstClose(pclient)
    /\ async' = AsyncClose(async)
    /\ sync' = SyncClose(sync)
    /\ asyncOut' = [NoOut EXCEPT !.kind = "close"]
    /\ syncOut' = [NoOut EXCEPT !.kind = "close"]
    /\ ops' = ops + 1
    /\ UNCHANGED <<auth, clockVars, appVars, inst, tasks, instCalls, netlog,
                   installations, minted, extVars>>

NextOwner ==
    \/ OwnerStart
    \/ \E ok \in BOOLEAN, list \in OwnerLists : LookupReply(ok, list)
    \/ \E ok \in BOOLEAN : MintReply(ok)
    \/ OwnerFinish
    \/ OwnerClose
    \/ InstTick

SpecOwner == InitOwner /\ [][NextOwner]_vars

AllClosed(c) == \A i \in DOMAIN c.objs : ~c.objs[i].open

(* C12: when close() returns, the session the client holds is closed, the  *)
(* private client of its AppInstallationAuth and that client's session are *)
(* closed, and no session the client or its credential has opened is still *)
(* open; for the SyncClient and the AsyncClient alike.                      *)
C12_CloseReleasesSessions ==
    [][(ops' = ops + 1 /\ asyncOut'.kind = "close") =>
          /\ AllClosed(sync')
          /\ AllClosed(async')
          /\ AllClosed(pclient')]_vars

C12_Witness ==
    /\ asyncOut.kind = "close"
    /\ Len(async.objs) = 2
    /\ Len(pclient.objs) = 2
    /\ Len(sync.objs) = 1
    /\ async.gql_client = 2
    /\ pclient.gql_client = 2
    /\ AllClosed(async) /\ AllClosed(pclient) /\ AllClosed(sync)

(* C18: every access-token POST carries the same body, fixed by the        *)
(* repositories the credential was built with: {"repositories": [...]}     *)
(* with the list, a single string standing for the list of that one name,  *)
(* and {} when none was given (an empty list counts as none).              *)
C18_MintBody ==
    \A i \in PostsIn(netlog) :
        netlog[i].data =
            Some(CASE inst.repositories = None -> "{}"
                   [] inst.repositories = Some(<<>>) -> "{}"
                   [] inst.repositories = Some(<<"a">>) ->
                        "{\"repositories\": [\"a\"]}"
                   [] inst.repositories = Some(<<"a", "b">>) ->
                        "{\"repositories\": [\"a\", \"b\"]}")

C18_Witness ==
    /\ Cardinality(PostsIn(netlog)) = 2
    /\ minted = 2
    /\ \A i \in PostsIn(netlog) :
          netlog[i].data = Some("{\"repositories\": [\"a\"]}")

(* No entry of the list the server answered belongs to the owner *)
OwnerMissing ==
    /\ installations /= None
    /\ \A i \in DOMAIN installations[1] : installations[1][i].login /= inst.owner

(* C19: when no entry of the installation list has the owner's login, the  *)
(* get_token call fails with the installation-not-found error, no          *)
(* access-token POST is ever sent, no token is cached, and the list is     *)
(* asked for once only.                                                     *)
C19_InstallationNotFound ==
    OwnerMissing =>
        /\ inst.gen = "finished"
        /\ inst.token = None
        /\ PostsIn(netlog) = {}
        /\ minted = 0
        /\ Cardinality(LookupsIn(netlog)) = 1
        /\ (instCalls = 1 /\ tasks["t1"].state = "done") =>
              (tasks["t1"].kind = "error" /\ tasks["t1"].value = "NotInstalled")
        /\ (instCalls = 1 /\ tasks["t1"].state = "idle") =>
              asyncOut.kind \in {"NotInstalled", "close"}

C19_Witness ==
    /\ installations = Some(<<[id |-> 7, login |-> "other"]>>)
    /\ asyncOut.kind = "NotInstalled"
    /\ instCalls = 2
    /\ tasks["t1"].value = "StopAsyncIteration"

----------------------------------------------------------------------------
(* SpecSyncApp: a SyncClient and an AsyncClient, each over an AppAuth of   *)
(* its own built from the same id and key, given the same operations.      *)
(* The AsyncClient awaits auth.get_token() in the caller's event loop; the *)
(* SyncClient runs each asyncio.run(self.auth.get_token()) in a new event  *)
(* loop that is closed when the call returns.                               *)

(* jwt.encode raises on a key that is not a private key *)
KeyValid(key) == key = PRIVKEY

AppKeys == {PRIVKEY, "notakey"}

(* await anext(self._generator): the next state of the AppAuth and what    *)
(* the call gives. A finished generator raises StopAsyncIteration; an      *)
(* exception that leaves the body finishes the generator.                   *)
AppAnext(a, current) ==
    IF a.gen = "finished"
    THEN [auth |-> a, res |-> Failed("StopAsyncIteration")]
    ELSE IF ~KeyValid(a.privkey)
    THEN [auth |-> [a EXCEPT !.gen = "finished"],
          res |-> Failed("InvalidKeyError")]
    ELSE LET a2 == AppGetToken(a, current)
         IN  [auth |-> a2, res |-> Returned(a2.token[1])]

(* The end of asyncio.run: loop.shutdown_asyncgens() calls aclose() on     *)
(* every async generator that was first iterated in the loop and is still  *)
(* alive; the generator suspended at its yield is finished by it.           *)
ShutdownAsyncgens(a, before) ==
    IF before.gen = "created" /\ a.gen = "yield"
    THEN [a EXCEPT !.gen = "finished", !.payload = None, !.token = None]
    ELSE a

(* asyncio.run(self.auth.get_token()) *)
AsyncioRunGetToken(a, current) ==
    LET r == AppAnext(a, current)
    IN  [auth |-> ShutdownAsyncgens(r.auth, a), res |-> r.res]

InitSyncApp ==
    /\ ClockInit
    /\ appHist = [calls |-> 0, at |-> 0, ret |-> None, regen |-> FALSE]
    /\ \E key \in AppKeys :
          /\ app = [AppInit EXCEPT !.privkey = key]
          /\ sapp = [AppInit EXCEPT !.privkey = key]
    /\ rate = NoRate
    /\ EnvVarsInit
    /\ InstVarsInit([kind |-> "none", v |-> <<>>])
    /\ ClientVarsInit("public", "")

(* get(query) on both clients *)
AppOpGet ==
    /\ ops < MaxOps
    /\ \E q \in Queries :
          LET s == AsyncioRunGetToken(sapp, now)
              a == AppAnext(app, now)
              rs == SyncGetWith(sync, s.res, q)
              ra == AsyncGetWith(async, a.res, q)
          IN  /\ sapp' = s.auth
              /\ app' = a.auth
              /\ sync' = rs.client
              /\ syncOut' = rs.out
              /\ async' = ra.client
              /\ asyncOut' = ra.out
    /\ ops' = ops + 1
    /\ UNCHANGED <<auth, clockVars, appHist, instVars, rate, env, ctasks>>

NextSyncApp == AppOpGet \/ AppTick

SpecSyncApp == InitSyncApp /\ [][NextSyncApp]_vars

(* C11: with a valid key, every operation of the SyncClient does what the  *)
(* same operation of the AsyncClient does: it succeeds, is sent with the   *)
(* same token (the cached one inside the refresh window, a regenerated one *)
(* past it), and reuses or rebuilds its session in the same way.           *)
C11_SyncCacheAsAsync ==
    (ops >= 1 /\ KeyValid(sapp.privkey)) =>
        /\ syncOut.kind = "rest"
        /\ asyncOut.kind = "rest"
        /\ syncOut.token = asyncOut.token
        /\ syncOut.session = asyncOut.session
        /\ syncOut.built = asyncOut.built

(* C20: when get_token fails inside an operation, the operation ends with  *)
(* that failure, nothing is sent, and _prev_token, _gql_client,            *)
(* _gql_session and the sessions built so far are as they were before the  *)
(* operation; for the SyncClient and the AsyncClient alike.                 *)
C20_FailedGetTokenFrame ==
    [][ops' = ops + 1 =>
          /\ (sapp.gen = "finished" \/ ~KeyValid(sapp.privkey)) =>
                /\ syncOut'.kind \in {"StopAsyncIteration", "InvalidKeyError"}
                /\ syncOut'.session = 0 /\ syncOut'.method = ""
                /\ sync'.prev_token = sync.prev_token
                /\ sync'.gql_client = sync.gql_client
                /\ sync'.gql_session = sync.gql_session
                /\ sync'.objs = sync.objs
          /\ (app.gen = "finished" \/ ~KeyValid(app.privkey)) =>
                /\ asyncOut'.kind \in {"StopAsyncIteration", "InvalidKeyError"}
                /\ asyncOut'.session = 0 /\ asyncOut'.method = ""
                /\ async'.prev_token = async.prev_token
                /\ async'.gql_client = async.gql_client
                /\ async'.gql_session = async.gql_session
                /\ async'.objs = async.objs]_vars

C20_Witness ==
    /\ syncOut.kind = "StopAsyncIteration"
    /\ sync.prev_token /= None
    /\ sync.gql_session = 1
    /\ sync.objs[1].open
    /\ ops = 2

----------------------------------------------------------------------------
(* __init__.py: client_from_env. A variable of os.environ is None when it  *)
(* is not set and Some(value) when it is; GITHUB_APP_ID is a text of       *)
(* decimal digits.                                                          *)

Environ(token, app_id, privkey) ==
    ("GITHUB_TOKEN" :> token) @@ ("GITHUB_APP_ID" :> app_id)
    @@ ("GITHUB_APP_PRIVKEY" :> privkey)

(* functools.partial(func, ...): the constructor and the arguments bound *)
Partial(func, token, id, privkey, owner, repositories) ==
    [func |-> func, token |-> token, id |-> id, privkey |-> privkey,
     owner |-> owner, repositories |-> repositories]

(* Mutant of ClientFromEnv: the app variables are looked at first *)
ClientFromEnvAppFirst(environ, owner, repositories) ==
    IF environ["GITHUB_APP_ID"] /= None /\ environ["GITHUB_APP_PRIVKEY"] /= None
    THEN Partial("AppClient", "", ParseInt(environ["GITHUB_APP_ID"][1]),
                 environ["GITHUB_APP_PRIVKEY"][1], owner, repositories)
    ELSE IF environ["GITHUB_TOKEN"] /= None
    THEN Partial("TokenClient", environ["GITHUB_TOKEN"][1], 0, "", "", <<>>)
    ELSE Partial("PublicClient", "", 0, "", "", <<>>)

(* client_from_env(owner, repositories) *)
ClientFromEnv(environ, owner, repositories) ==
    IF environ["GITHUB_TOKEN"] /= None
    THEN Partial("TokenClient", environ["GITHUB_TOKEN"][1], 0, "", "", <<>>)
    ELSE IF environ["GITHUB_APP_ID"] /= None /\ environ["GITHUB_APP_PRIVKEY"] /= None
    THEN Partial("AppClient", "", ParseInt(environ["GITHUB_APP_ID"][1]),
                 environ["GITHUB_APP_PRIVKEY"][1], owner, repositories)
    ELSE Partial("PublicClient", "", 0, "", "", <<>>)

(* SpecEnv: client_from_env called in one environment *)
InitEnv ==
    /\ ClockInit
    /\ AppVarsInit
    /\ InstVarsInit([kind |-> "none", v |-> <<>>])
    /\ ClientVarsInit("public", "")
    /\ sapp = AppInit
    /\ rate = NoRate
    /\ ctasks = [t \in Tasks |-> IdleCTask]
    /\ \E token \in {None, Some(""), Some("fake")},
          app_id \in {None, Some(<<"1", "2", "3">>), Some(<<"7">>)},
          privkey \in {None, Some("fake"), Some("key2")},
          owner \in {"owner", "mozilla"},
          repositories \in {<<>>, <<"repo">>} :
          env = [environ |-> Environ(token, app_id, privkey), owner |-> owner,
                 repositories |-> repositories, client |-> None]

EnvCall ==
    /\ env.client = None
    /\ env' = [env EXCEPT
                 !.client = Some(ClientFromEnv(env.environ, env.owner,
                                               env.repositories))]
    /\ UNCHANGED <<clockVars, appVars, instVars, clientVars, sapp, rate, ctasks>>

NextEnv == EnvCall

SpecEnv == InitEnv /\ [][NextEnv]_vars

(* C21: client_from_env returns TokenClient whenever GITHUB_TOKEN is set,  *)
(* whatever the app variables are; otherwise AppClient when GITHUB_APP_ID  *)
(* and GITHUB_APP_PRIVKEY are both set; otherwise PublicClient, also when  *)
(* only one of the two app variables is set.                                *)
C21_ClientFromEnvPriority ==
    env.client /= None =>
        LET e == env.environ
            chosen == env.client[1].func
        IN  /\ e["GITHUB_TOKEN"] /= None => chosen = "TokenClient"
            /\ (e["GITHUB_TOKEN"] = None /\ e["GITHUB_APP_ID"] /= None
                  /\ e["GITHUB_APP_PRIVKEY"] /= None) => chosen = "AppClient"
            /\ (e["GITHUB_TOKEN"] = None
                  /\ (e["GITHUB_APP_ID"] = None \/ e["GITHUB_APP_PRIVKEY"] = None))
                  => chosen = "PublicClient"

C21_Witness ==
    /\ env.client /= None
    /\ env.client[1].func = "TokenClient"
    /\ env.environ["GITHUB_TOKEN"] = Some("fake")
    /\ env.environ["GITHUB_APP_ID"] = Some(<<"1", "2", "3">>)
    /\ env.environ["GITHUB_APP_PRIVKEY"] = Some("fake")

----------------------------------------------------------------------------
(* C22: with tasks calling get_token concurrently, an access-token POST is *)
(* sent only when no other one is in flight, one at a time, and every POST *)
(* but the last has been answered with a mint, so no expired token is      *)
(* minted for twice; a call made while the cached token is not expiring    *)
(* returns it without any network call.                                     *)
C22_OneMintPerCycle ==
    [][/\ Cardinality(PostsIn(netlog')) <= Cardinality(PostsIn(netlog)) + 1
       /\ PostsIn(netlog') /= PostsIn(netlog) =>
             inst.gen \notin {"mint", "refresh"}
       /\ Cardinality(PostsIn(netlog')) <= minted' + 1
       /\ \A t \in Tasks :
             (CallBy(t) /\ inst.gen = "yield" /\ inst.exp[1] - now >= 60) =>
                 /\ netlog' = netlog
                 /\ pclient' = pclient
                 /\ tasks'[t].state = "done"
                 /\ tasks'[t].kind = "token"
                 /\ tasks'[t].value = inst.token[1]]_vars

C22_Witness ==
    /\ minted = 2
    /\ Cardinality(PostsIn(netlog)) = 2
    /\ inst.gen = "yield"
    /\ \E t \in Tasks :
          /\ tasks[t].state = "done"
          /\ tasks[t].during
          /\ tasks[t].old = Some(ServerToken(1))
          /\ tasks[t].value = "RuntimeError"

----------------------------------------------------------------------------
(* C29: every request of the AppInstallationAuth, the lookup and each      *)
(* access-token POST, is sent by its private client on a session bound to  *)
(* the parent AppAuth's JWT as resolved for that request, which has at     *)
(* least 60 s left at that time; it is never the installation token.       *)
C29_PrivateCallsUseParentJwt ==
    [][Len(netlog') > Len(netlog) =>
          LET e == netlog'[Len(netlog')]
          IN  /\ Len(netlog') = Len(netlog) + 1
              /\ app'.payload /= None
              /\ app'.payload[1]["exp"] - now >= 60
              /\ app'.payload[1]["iat"] <= now
              /\ app'.payload[1]["iss"] = APP_ID
              /\ e.token = JwtEncode(app'.payload[1], PRIVKEY)
              /\ e.headers = [Accept |-> ACCEPT,
                              Authorization |-> "Bearer " \o e.token]
              /\ e.session = pclient'.gql_session
              /\ pclient'.objs[e.session].token = e.token
              /\ pclient'.objs[e.session].headers = e.headers
              /\ inst.token /= None => e.token /= inst.token[1]]_vars

C29_Witness ==
    /\ Len(netlog) = 3
    /\ netlog[1].method = "GET"
    /\ netlog[2].method = "POST"
    /\ netlog[3].method = "POST"
    /\ netlog[2].token = netlog[1].token
    /\ netlog[3].token /= netlog[2].token
    /\ netlog[3].token = JwtEncode(app.payload[1], PRIVKEY)
    /\ app.payload[1]["iat"] >= 3541
    /\ minted = 2

----------------------------------------------------------------------------
(* C30: in a sequence of operations, token changes and close() calls, the  *)
(* session an operation gets from _get_gql_session is never one that the   *)
(* client has closed, so also not after close() with the token unchanged.  *)
C30_NoClosedSessionAfterClose ==
    [][OpStep =>
          /\ sync'.objs[syncOut'.session].open
          /\ async'.objs[asyncOut'.session].open]_vars

----------------------------------------------------------------------------
(* SpecCancel: tasks calling get_token on one AppInstallationAuth whose    *)
(* server always answers, and who may be cancelled while they wait.        *)

(* task.cancel() on the task whose get_token call is waiting for the       *)
(* network: CancelledError is raised at the await inside the generator     *)
(* body, nothing there catches it, and it leaves the generator and the     *)
(* call.                                                                    *)
InstCancel ==
    /\ InstRunning(inst)
    /\ inst' = InstFinished(inst)
    /\ tasks' = TaskRaises(inst.runner, "CancelledError")
    /\ UNCHANGED <<clockVars, appVars, pclient, instCalls, netlog,
                   installations, minted, clientVars, extVars>>

(* The clock passes the refresh threshold of the installation token *)
CancelTick ==
    /\ Tick(INST_TTL - REFRESH_WINDOW + 1)
    /\ UNCHANGED <<appVars, instVars, clientVars, extVars>>

NextCancel ==
    \/ \E t \in Tasks : InstCall(t)
    \/ \E list \in InstallationLists :
          GetInstallationId(list, OWNER) /= None /\ LookupReply(TRUE, list)
    \/ MintReply(TRUE)
    \/ InstCancel
    \/ CancelTick

SpecCancel == InitInst /\ [][NextCancel]_vars

(* C25: with a server that always answers, cancelling the task that waits  *)
(* for the lookup or for a mint leaves the credential usable: token and    *)
(* expiry are both set or both as before, the generator is not ended, and  *)
(* every call that was not itself cancelled and was not made while another *)
(* was in flight returns a token.                                           *)
C25_CancelKeepsCache ==
    /\ inst.gen /= "finished"
    /\ (inst.token = None) = (inst.exp = None)
    /\ \A t \in Tasks :
          (tasks[t].state = "done" /\ ~tasks[t].during
             /\ tasks[t].value /= "CancelledError") => tasks[t].kind = "token"

----------------------------------------------------------------------------
(* SpecConc: tasks of one event loop running operations on one AsyncClient *)
(* over a TokenAuth. A task runs without interruption up to its next await *)
(* that waits for the network: close_async of the old client (line 243)    *)
(* and connect_async of the new one (line 255). get_token of a TokenAuth   *)
(* never suspends. ctasks[t] holds the position of task t, its local       *)
(* variable token, the client it is closing and the client it built.       *)

(* Task t is suspended inside _get_gql_session *)
Suspended(t) == ctasks[t].pc \in {"closing", "connecting"}

(* Lines 245-254: a transport and a GqlClient for token, not yet connected *)
NewGqlClient(c, token) ==
    [c EXCEPT !.objs = Append(c.objs,
                  [url |-> GITHUB_GRAPHQL_ENDPOINT,
                   headers |-> AsyncHeaders(token), open |-> FALSE,
                   token |-> token]),
              !.gql_client = Len(c.objs) + 1]

(* The request of an operation leaves on session n, which                  *)
(* _get_gql_session returned to a task whose get_token returned token:     *)
(* the token the session was built for, and whether it is open and         *)
(* whether some task is closing it at that moment                          *)
ConcSent(c, token, n) ==
    [token |-> token, session |-> n, bound |-> c.objs[n].token,
     open |-> c.objs[n].open,
     closing |-> \E u \in Tasks :
                    ctasks[u].pc = "closing" /\ ctasks[u].closing = n]

(* Task t starts an operation: lines 235-243, or up to 255 when no client  *)
(* is held                                                                  *)
ConcStart(t) ==
    /\ ~Suspended(t)
    /\ ops < MaxOps
    /\ ops' = ops + 1
    /\ LET token == AuthGetToken(auth)
           c1 == [async EXCEPT !.prev_token = Some(token)]
       IN  IF Some(token) = async.prev_token
           THEN /\ async' = async
                /\ ctasks' = [ctasks EXCEPT ![t] =
                      IF async.gql_session = 0
                      THEN [IdleCTask EXCEPT !.pc = "done", !.token = token,
                                             !.error = "AssertionError"]
                      ELSE [IdleCTask EXCEPT !.pc = "done", !.token = token,
                               !.sent = Some(ConcSent(async, token,
                                                      async.gql_session))]]
           ELSE IF async.gql_client /= 0
           THEN /\ async' = c1
                /\ ctasks' = [ctasks EXCEPT ![t] =
                      [IdleCTask EXCEPT !.pc = "closing", !.token = token,
                                        !.closing = async.gql_client]]
           ELSE /\ async' = NewGqlClient(c1, token)
                /\ ctasks' = [ctasks EXCEPT ![t] =
                      [IdleCTask EXCEPT !.pc = "connecting", !.token = token,
                                        !.built = Len(async.objs) + 1]]
    /\ UNCHANGED <<auth, sync, syncOut, asyncOut, clockVars, appVars,
                   instVars, sapp, rate, env>>

(* close_async of the old client returns to task t (lines 243-255), or     *)
(* raises                                                                   *)
ConcCloseDone(t, ok) ==
    /\ ctasks[t].pc = "closing"
    /\ IF ok
       THEN /\ async' = NewGqlClient(
                   [async EXCEPT !.objs[ctasks[t].closing].open = FALSE],
                   ctasks[t].token)
            /\ ctasks' = [ctasks EXCEPT ![t].pc = "connecting",
                                        ![t].built = Len(async.objs) + 1]
       ELSE /\ async' = async
            /\ ctasks' = [ctasks EXCEPT ![t].pc = "done",
                                        ![t].error = "TransportError"]
    /\ UNCHANGED <<auth, sync, syncOut, asyncOut, ops, clockVars, appVars,
                   instVars, sapp, rate, env>>

(* connect_async of the client task t built returns (lines 255-257) and    *)
(* the request is sent, or raises. What connect_async does on a client     *)
(* another task closed meanwhile is left open: it may return, raise or     *)
(* never return.                                                            *)
ConcConnectDone(t, ok) ==
    /\ ctasks[t].pc = "connecting"
    /\ IF ok
       THEN LET c2 == [async EXCEPT !.objs[ctasks[t].built].open = TRUE,
                                    !.gql_session = ctasks[t].built]
            IN  /\ async' = c2
                /\ ctasks' = [ctasks EXCEPT ![t].pc = "done",
                      ![t].sent = Some(ConcSent(c2, ctasks[t].token,
                                                ctasks[t].built))]
       ELSE /\ async' = async
            /\ ctasks' = [ctasks EXCEPT ![t].pc = "done",
                                        ![t].error = "TransportError"]
    /\ UNCHANGED <<auth, sync, syncOut, asyncOut, ops, clockVars, appVars,
                   instVars, sapp, rate, env>>

(* task.cancel() on a task suspended at line 243 or 255: CancelledError    *)
(* leaves _get_gql_session, which has no handler                           *)
ConcCancel(t) ==
    /\ Suspended(t)
    /\ ctasks' = [ctasks EXCEPT ![t].pc = "done",
                                ![t].error = "CancelledError"]
    /\ UNCHANGED <<clientVars, clockVars, appVars, instVars, sapp, rate, env>>

NextConc ==
    \/ \E t \in Tasks : ConcStart(t)
    \/ \E t \in Tasks, ok \in BOOLEAN : ConcCloseDone(t, ok)
    \/ \E t \in Tasks, ok \in BOOLEAN : ConcConnectDone(t, ok)
    \/ \E t \in Tasks : ConcCancel(t)
    \/ RotateToken

SpecConc == InitClient /\ [][NextConc]_vars

(* C23: under concurrent operations every task that is not cancelled and   *)
(* meets no transport failure finds a session, and its request leaves on   *)
(* an open session that is not being closed and that was built for the     *)
(* token its own get_token call returned.                                   *)
C23_RequestOnOwnToken ==
    \A t \in Tasks :
        /\ ctasks[t].error /= "AssertionError"
        /\ ctasks[t].sent /= None =>
              /\ ctasks[t].sent[1].bound = ctasks[t].token
              /\ ctasks[t].sent[1].open
              /\ ~ctasks[t].sent[1].closing

(* C24: two tasks are never both building a session for the same token. *)
C24_OneBuildPerToken ==
    \A t, u \in Tasks :
        (t /= u /\ ctasks[t].pc = "connecting" /\ ctasks[u].pc = "connecting")
            => ctasks[t].token /= ctasks[u].token

(* _prev_token and the held session agree: no token is recorded, or the    *)
(* held session exists, is open and was built for the recorded token       *)
Agree(c) ==
    \/ c.prev_token = None
    \/ /\ c.gql_session /= 0
       /\ c.objs[c.gql_session].open
       /\ c.objs[c.gql_session].token = c.prev_token[1]
       /\ c.objs[c.gql_session].headers = AsyncHeaders(c.prev_token[1])

(* C26: when a task suspended in _get_gql_session is cancelled and no      *)
(* other task is inside it, _prev_token and the held session agree         *)
(* afterwards.                                                              *)
C26_CancelLeavesCacheAgreeing ==
    [][\A t \in Tasks :
          (Suspended(t) /\ ctasks'[t].error = "CancelledError"
             /\ \A u \in Tasks \ {t} : ~Suspended(u)) => Agree(async')]_vars

(* C27: between operations, whatever failed before, _prev_token is T only  *)
(* if the held session exists, is open and was built with the headers for  *)
(* T, and no operation finds the token equal with no session held.         *)
C27_SessionCacheConsistent ==
    /\ (\A t \in Tasks : ~Suspended(t) /\ ctasks[t].error /= "CancelledError")
          => Agree(async)
    /\ \A t \in Tasks : ctasks[t].error /= "AssertionError"

(* C28: at most one of the sessions the client built is open, none before  *)
(* the first operation.                                                     *)
C28_AtMostOneOpenSession ==
    /\ Cardinality({n \in DOMAIN async.objs : async.objs[n].open}) <= 1
    /\ ops = 0 => async.objs = <<>>

====
